---- MODULE Spec2Model ----
\* Model of pacdef's interactive review (crates/pacdef_core/src/review):
\* review(), get_action_for_package(), ask_user_action_for_package(),
\* ask_group() and the ReviewsPerBackend aggregator.
EXTENDS Integers, Sequences, FiniteSets, TLC

VARIABLES
    todo,        \* todo_per_backend: sequence of [supports, pkgs]
    groupsIn,    \* the caller's group iterator: its groups in its order, until collected
    groups,      \* review()'s local Vec<Rc<Group>>, collected from groupsIn
    pc,          \* position in review()
    bi,          \* index of the backend of the outer for loop
    pi,          \* index of the package of the inner for loop
    actions,     \* the local `actions` vector of the current backend
    reviews,     \* ReviewsPerBackend.items
    strategies,  \* the local `strategies` vector
    shown,       \* backends whose strategy was shown, in order
    confirms,    \* number of get_user_confirmation calls
    executed,    \* backends whose strategy was executed (Ok), in order
    execFailed,  \* backends whose execute returned Err, in order
    calls,       \* kinds of Backend methods called so far
    term,        \* kinds of terminal requests made so far: flush, read_char, confirm
    printed,     \* number of "nothing to do" lines printed
    decided,     \* packages whose per-package loop ended by a break
    ev,          \* the last input event and what the code made of it
    result       \* how review() ended: "running" until it returns or panics

vars == <<todo, groupsIn, groups, pc, bi, pi, actions, reviews, strategies,
          shown, confirms, executed, execFailed, calls, term, printed,
          decided, ev, result>>

\* ---------------------------------------------------------------- bounds
MaxBackends == 2
MaxPkgs == 2
MaxGroups == 2

\* ---------------------------------------------------------------- inputs
RECURSIVE SumTo(_, _)
SumTo(cnt, n) == IF n = 0 THEN 0 ELSE cnt[n] + SumTo(cnt, n - 1)

\* Packages are numbered consecutively over the backends, so every package
\* of the input is a distinct value.
PkgsOf(cnt, b) == [i \in 1..cnt[b] |-> SumTo(cnt, b - 1) + i]

PkgCounts ==
    UNION {{c \in [1..n -> 0..MaxPkgs] : SumTo(c, n) <= MaxPkgs} : n \in 0..MaxBackends}

TodoInputs ==
    {[b \in 1..Len(c) |-> [supports |-> s[b], pkgs |-> PkgsOf(c, b)]] :
        <<c, s>> \in {<<c2, s2>> \in PkgCounts \X UNION {[1..n -> BOOLEAN] : n \in 0..MaxBackends} :
                        Len(c2) = Len(s2)}}

\* Groups are identified by their name and compare by it; the names of n groups
\* are the numbers 1..n. The caller supplies them in any order.
GroupInputs ==
    {g \in UNION {[1..n -> 1..n] : n \in 0..MaxGroups} :
        \A i, j \in 1..Len(g) : i # j => g[i] # g[j]}

\* Characters the terminal can deliver: the letters of the query in lower case,
\* three of them in upper case, and a letter of no arm.
Keys == {"a", "A", "d", "D", "g", "i", "q", "Q", "s", "x"}

Digit == [c \in {"0", "1", "2", "3", "4", "5", "6", "7", "8", "9"} |->
            CASE c = "0" -> 0 [] c = "1" -> 1 [] c = "2" -> 2 [] c = "3" -> 3
              [] c = "4" -> 4 [] c = "5" -> 5 [] c = "6" -> 6 [] c = "7" -> 7
              [] c = "8" -> 8 [] c = "9" -> 9]

DigitChar(n) == CHOOSE c \in DOMAIN Digit : Digit[c] = n

\* Lines read_line can deliver: every index up to the group count, a line
\* with surrounding blanks and a plus sign, a line led by a form feed,
\* non-numeric lines, end of input.
Lines ==
    {<<DigitChar(i), "\n">> : i \in 0..MaxGroups}
        \cup {<<" ", "+", "0", "1", " ", "\n">>, <<"\f", "1", "\n">>,
              <<"x", "\n">>, <<"-", "1", "\n">>, <<"\n">>, <<>>}

\* ------------------------------------------------------- pure functions
\* groups.sort_unstable(): insertion into a sorted prefix.
RECURSIVE Insert(_, _)
Insert(s, x) ==
    IF s = <<>> THEN <<x>>
    ELSE IF x <= Head(s) THEN <<x>> \o s
    ELSE <<Head(s)>> \o Insert(Tail(s), x)

RECURSIVE sort_unstable(_)
sort_unstable(s) ==
    IF s = <<>> THEN <<>> ELSE Insert(sort_unstable(SubSeq(s, 1, Len(s) - 1)), s[Len(s)])

\* The ASCII capitals and their lower-case letters.
AsciiLower ==
    [c \in {"A", "B", "C", "D", "E", "F", "G", "H", "I", "J", "K", "L", "M",
            "N", "O", "P", "Q", "R", "S", "T", "U", "V", "W", "X", "Y", "Z"} |->
        CASE c = "A" -> "a" [] c = "B" -> "b" [] c = "C" -> "c" [] c = "D" -> "d"
          [] c = "E" -> "e" [] c = "F" -> "f" [] c = "G" -> "g" [] c = "H" -> "h"
          [] c = "I" -> "i" [] c = "J" -> "j" [] c = "K" -> "k" [] c = "L" -> "l"
          [] c = "M" -> "m" [] c = "N" -> "n" [] c = "O" -> "o" [] c = "P" -> "p"
          [] c = "Q" -> "q" [] c = "R" -> "r" [] c = "S" -> "s" [] c = "T" -> "t"
          [] c = "U" -> "u" [] c = "V" -> "v" [] c = "W" -> "w" [] c = "X" -> "x"
          [] c = "Y" -> "y" [] c = "Z" -> "z"]

\* char::to_ascii_lowercase: 'A'..'Z' to 'a'..'z', every other character itself.
to_ascii_lowercase(c) ==
    IF c \in DOMAIN AsciiLower THEN AsciiLower[c] ELSE c

\* Mutant: the match arm for 'a' without its `if supports_as_dependency` guard.
ask_user_action_for_package_NoGuard(supports_as_dependency, c) ==
    LET l == to_ascii_lowercase(c) IN
    CASE l = "a" -> "AsDependency"
      [] l = "d" -> "Delete"
      [] l = "g" -> "AssignGroup"
      [] l = "i" -> "Info"
      [] l = "q" -> "Quit"
      [] l = "s" -> "Skip"
      [] OTHER -> "Invalid"

\* The match of ask_user_action_for_package.
ask_user_action_for_package(supports_as_dependency, c) ==
    LET l == to_ascii_lowercase(c) IN
    CASE l = "a" /\ supports_as_dependency -> "AsDependency"
      [] l = "d" -> "Delete"
      [] l = "g" -> "AssignGroup"
      [] l = "i" -> "Info"
      [] l = "q" -> "Quit"
      [] l = "s" -> "Skip"
      [] OTHER -> "Invalid"

\* char::is_whitespace, the characters str::trim strips: the Unicode White_Space
\* code points. Those a TLA+ string cannot hold are written by their code point.
White ==
    {"\t", "\n", "U+000B", "\f", "\r", " ", "U+0085", "U+00A0", "U+1680",
     "U+2000", "U+2001", "U+2002", "U+2003", "U+2004", "U+2005", "U+2006",
     "U+2007", "U+2008", "U+2009", "U+200A", "U+2028", "U+2029", "U+202F",
     "U+205F", "U+3000"}

RECURSIVE TrimStart(_)
TrimStart(s) ==
    IF s # <<>> /\ Head(s) \in White THEN TrimStart(Tail(s)) ELSE s

RECURSIVE TrimEnd(_)
TrimEnd(s) ==
    IF s # <<>> /\ s[Len(s)] \in White THEN TrimEnd(SubSeq(s, 1, Len(s) - 1)) ELSE s

\* str::trim
trim(s) == TrimEnd(TrimStart(s))

RECURSIVE DigitsValue(_, _)
DigitsValue(s, acc) ==
    IF s = <<>> THEN acc ELSE DigitsValue(Tail(s), 10 * acc + Digit[Head(s)])

\* str::parse::<usize>: an optional plus sign, then one or more digits.
\* (The lines of the model are far too short to overflow a usize.)
parse(s) ==
    LET body == IF s # <<>> /\ Head(s) = "+" THEN Tail(s) ELSE s IN
    IF body # <<>> /\ \A k \in 1..Len(body) : body[k] \in DOMAIN Digit
    THEN [ok |-> TRUE, idx |-> DigitsValue(body, 0)]
    ELSE [ok |-> FALSE, idx |-> 0]

None == [some |-> FALSE, group |-> 0]
Some(g) == [some |-> TRUE, group |-> g]

\* Mutant: ask_group parsing the line as read, without trimming it.
ask_group_NoTrim(gs, buf) ==
    LET p == parse(buf) IN
    IF ~p.ok THEN None
    ELSE IF p.idx < Len(gs) THEN Some(gs[p.idx + 1])
    ELSE None

\* Mutant: ask_group answering an index past the end with a default group.
ask_group_Default(gs, buf) ==
    LET reply == trim(buf)
        p == parse(reply) IN
    IF ~p.ok THEN None
    ELSE IF p.idx < Len(gs) THEN Some(gs[p.idx + 1])
    ELSE Some(0)

\* ask_group after a successful read_line: the Option it returns.
ask_group(gs, buf) ==
    LET reply == trim(buf)
        p == parse(reply) IN
    IF ~p.ok THEN None
    ELSE IF p.idx < Len(gs) THEN Some(gs[p.idx + 1])
    ELSE None

\* get_amount_of_digits_for_number: log10 of 0 is -inf, whose truncation
\* casts to 0 (float-to-integer `as` casts saturate).
RECURSIVE Log10Trunc(_)
Log10Trunc(n) == IF n < 10 THEN 0 ELSE 1 + Log10Trunc(n \div 10)

get_amount_of_digits_for_number(number) ==
    IF number = 0 THEN 0 + 1 ELSE Log10Trunc(number) + 1

\* print_enumerated_groups: the (width, index, name) lines it prints.
print_enumerated_groups(gs) ==
    [i \in 1..Len(gs) |->
        [width |-> get_amount_of_digits_for_number(Len(gs)), index |-> i - 1, name |-> gs[i]]]

\* ReviewAction
AsDependencyAction(p) == [tag |-> "AsDependency", package |-> p]
DeleteAction(p) == [tag |-> "Delete", package |-> p]
AssignGroupAction(p, g) == [tag |-> "AssignGroup", package |-> p, group |-> g]

\* Mutant: nothing_to_do with `any` for `all`.
nothing_to_do_Any(items) == \E k \in 1..Len(items) : items[k].actions = <<>>

\* ReviewsPerBackend::nothing_to_do
nothing_to_do(items) == \A k \in 1..Len(items) : items[k].actions = <<>>

\* ToDoPerBackend::nothing_to_do_for_all_backends
nothing_to_do_for_all_backends(t) == \A k \in 1..Len(t) : t[k].pkgs = <<>>

RECURSIVE SelectMap(_, _, _)
SelectMap(s, tag, k) ==
    IF k > Len(s) THEN <<>>
    ELSE IF s[k].tag = tag
         THEN <<IF tag = "AssignGroup" THEN <<s[k].package, s[k].group>> ELSE s[k].package>>
                  \o SelectMap(s, tag, k + 1)
         ELSE SelectMap(s, tag, k + 1)

\* extract_actions: the three vectors after the loop over the actions.
extract_actions(acts) ==
    [to_delete |-> SelectMap(acts, "Delete", 1),
     assign_group |-> SelectMap(acts, "AssignGroup", 1),
     as_dependency |-> SelectMap(acts, "AsDependency", 1)]

\* Strategy::new
StrategyNew(backend, to_delete, as_dependency, assign_group) ==
    [backend |-> backend, to_delete |-> to_delete,
     as_dependency |-> as_dependency, assign_group |-> assign_group]

\* Strategy::nothing_to_do
StrategyNothingToDo(s) ==
    s.to_delete = <<>> /\ s.as_dependency = <<>> /\ s.assign_group = <<>>

RECURSIVE Retain(_, _)
Retain(s, k) ==
    IF k > Len(s) THEN <<>>
    ELSE IF ~StrategyNothingToDo(s[k]) THEN <<s[k]>> \o Retain(s, k + 1)
    ELSE Retain(s, k + 1)

\* Mutant: into_strategies without its `result.retain(..)`.
into_strategies_NoRetain(items) ==
    [k \in 1..Len(items) |->
        LET x == extract_actions(items[k].actions) IN
        StrategyNew(items[k].backend, x.to_delete, x.as_dependency, x.assign_group)]

\* ReviewsPerBackend::into_strategies
into_strategies(items) ==
    LET built == [k \in 1..Len(items) |->
                    LET x == extract_actions(items[k].actions) IN
                    StrategyNew(items[k].backend, x.to_delete, x.as_dependency, x.assign_group)]
    IN Retain(built, 1)

\* ---------------------------------------------------------------- state
NoEvent == [kind |-> "none", key |-> "", line |-> <<>>, intent |-> ""]
KeyEvent(c, intent) == [kind |-> "key", key |-> c, line |-> <<>>, intent |-> intent]
LineEvent(l, outcome) == [kind |-> "line", key |-> "", line |-> l, intent |-> outcome]
FailEvent(what) == [kind |-> what, key |-> "", line |-> <<>>, intent |-> ""]

Init ==
    /\ todo \in TodoInputs
    /\ groupsIn \in GroupInputs
    /\ groups = <<>>
    /\ pc = "start"
    /\ bi = 1
    /\ pi = 1
    /\ actions = <<>>
    /\ reviews = <<>>
    /\ strategies = <<>>
    /\ shown = <<>>
    /\ confirms = 0
    /\ executed = <<>>
    /\ execFailed = <<>>
    /\ calls = {}
    /\ term = {}
    /\ printed = 0
    /\ decided = {}
    /\ ev = NoEvent
    /\ result = "running"

CurBackend == todo[bi]
CurPackage == todo[bi].pkgs[pi]

\* review() is left with the given result: a returned Ok or Err, or the panic of
\* a println! whose write to stdout failed ("PanicPrint") or of the assertion
\* of get_action_for_package ("PanicAssert").
Return(r) == pc' = "done" /\ result' = r

\* ---------------------------------------------------------------- review()
\* Lines 21-29: collect and sort the groups; leave when no backend has a package,
\* by the return after the line was printed or by the panic of its println!.
ReviewStart ==
    /\ pc = "start"
    /\ groups' = sort_unstable(groupsIn)
    /\ groupsIn' = <<>>
    /\ ev' = NoEvent
    /\ IF nothing_to_do_for_all_backends(todo)
       THEN \/ /\ printed' = printed + 1
               /\ Return("Ok")
            \/ /\ Return("PanicPrint")
               /\ UNCHANGED printed
       ELSE /\ pc' = "loop"
            /\ UNCHANGED <<printed, result>>
    /\ UNCHANGED <<todo, bi, pi, actions, reviews, strategies, shown,
                   confirms, executed, execFailed, calls, term, decided>>

\* Lines 33-35: the inner for loop yields a package; get_section is called and
\* the section line printed, on which get_action_for_package is entered, or the
\* println! of the line panics.
BeginPackage ==
    /\ pc = "loop"
    /\ bi <= Len(todo)
    /\ pi <= Len(CurBackend.pkgs)
    /\ calls' = calls \cup {"get_section"}
    /\ ev' = NoEvent
    /\ \/ /\ pc' = "asking"
          /\ UNCHANGED result
       \/ Return("PanicPrint")
    /\ UNCHANGED <<todo, groupsIn, groups, bi, pi, actions, reviews, strategies,
                   shown, confirms, executed, execFailed, term, printed, decided>>

\* Mutant: the entry of line 40 inserted at the front of the aggregator.
PushBackend_Front ==
    /\ pc = "loop"
    /\ bi <= Len(todo)
    /\ pi > Len(CurBackend.pkgs)
    /\ reviews' = <<[backend |-> bi, actions |-> actions]>> \o reviews
    /\ bi' = bi + 1
    /\ pi' = 1
    /\ actions' = <<>>
    /\ ev' = NoEvent
    /\ UNCHANGED <<todo, groupsIn, groups, pc, strategies, shown, confirms,
                   executed, execFailed, calls, term, printed, decided, result>>

\* Line 40: the inner loop is exhausted; reviews.push((backend, actions)).
PushBackend ==
    /\ pc = "loop"
    /\ bi <= Len(todo)
    /\ pi > Len(CurBackend.pkgs)
    /\ reviews' = Append(reviews, [backend |-> bi, actions |-> actions])
    /\ bi' = bi + 1
    /\ pi' = 1
    /\ actions' = <<>>
    /\ ev' = NoEvent
    /\ UNCHANGED <<todo, groupsIn, groups, pc, strategies, shown, confirms,
                   executed, execFailed, calls, term, printed, decided, result>>

\* Lines 43-50: after the outer loop; "nothing to do" is printed and review()
\* returns, or the strategies are built and the empty line ahead of the preview
\* is printed. The println! of either line can panic.
Aggregate ==
    /\ pc = "loop"
    /\ bi > Len(todo)
    /\ ev' = NoEvent
    /\ IF nothing_to_do(reviews)
       THEN /\ UNCHANGED strategies
            /\ \/ /\ printed' = printed + 1
                  /\ Return("Ok")
               \/ /\ Return("PanicPrint")
                  /\ UNCHANGED printed
       ELSE /\ strategies' = into_strategies(reviews)
            /\ UNCHANGED printed
            /\ \/ /\ pc' = "preview"
                  /\ UNCHANGED result
               \/ Return("PanicPrint")
    /\ UNCHANGED <<todo, groupsIn, groups, bi, pi, actions, reviews, shown,
                   confirms, executed, execFailed, calls, term, decided>>

\* Lines 53-59: strat.show() of the next strategy; when another strategy
\* follows, an empty line is printed, whose println! can panic.
ShowStrategy ==
    /\ pc = "preview"
    /\ Len(shown) < Len(strategies)
    /\ shown' = Append(shown, strategies[Len(shown) + 1].backend)
    /\ \/ UNCHANGED <<pc, result>>
       \/ /\ Len(shown) + 1 < Len(strategies)
          /\ Return("PanicPrint")
    /\ UNCHANGED <<todo, groupsIn, groups, bi, pi, actions, reviews, strategies,
                   confirms, executed, execFailed, calls, term, printed, decided, ev>>

\* Mutant: the test of line 62 without its negation.
Confirm_Negated ==
    /\ pc = "preview"
    /\ Len(shown) = Len(strategies)
    /\ \/ /\ confirms' = confirms + 1
          /\ term' = term \cup {"confirm"}
          /\ \E answer \in {"yes", "no", "err"} :
              /\ ev' = [kind |-> "confirm", key |-> "", line |-> <<>>, intent |-> answer]
              /\ CASE answer = "no" -> pc' = "execute" /\ UNCHANGED result
                   [] answer = "yes" -> Return("Ok")
                   [] answer = "err" -> Return("ErrIo")
       \/ /\ Return("PanicPrint")
          /\ UNCHANGED <<confirms, term, ev>>
    /\ UNCHANGED <<todo, groupsIn, groups, bi, pi, actions, reviews, strategies,
                   shown, executed, execFailed, calls, printed, decided>>

\* Mutant: the confirmation of lines 61-64 requested ahead of the preview loop.
Confirm_BeforePreview ==
    /\ pc = "preview"
    /\ confirms = 0
    /\ \/ /\ confirms' = confirms + 1
          /\ term' = term \cup {"confirm"}
          /\ \E answer \in {"yes", "no", "err"} :
              /\ ev' = [kind |-> "confirm", key |-> "", line |-> <<>>, intent |-> answer]
              /\ CASE answer = "yes" -> pc' = "execute" /\ UNCHANGED result
                   [] answer = "no" -> Return("Ok")
                   [] answer = "err" -> Return("ErrIo")
       \/ /\ Return("PanicPrint")
          /\ UNCHANGED <<confirms, term, ev>>
    /\ UNCHANGED <<todo, groupsIn, groups, bi, pi, actions, reviews, strategies,
                   shown, executed, execFailed, calls, printed, decided>>

\* Lines 61-64: the empty line after the preview, whose println! can panic,
\* then get_user_confirmation()? with its three outcomes.
Confirm ==
    /\ pc = "preview"
    /\ Len(shown) = Len(strategies)
    /\ \/ /\ confirms' = confirms + 1
          /\ term' = term \cup {"confirm"}
          /\ \E answer \in {"yes", "no", "err"} :
              /\ ev' = [kind |-> "confirm", key |-> "", line |-> <<>>, intent |-> answer]
              /\ CASE answer = "yes" -> pc' = "execute" /\ UNCHANGED result
                   [] answer = "no" -> Return("Ok")
                   [] answer = "err" -> Return("ErrIo")
       \/ /\ Return("PanicPrint")
          /\ UNCHANGED <<confirms, term, ev>>
    /\ UNCHANGED <<todo, groupsIn, groups, bi, pi, actions, reviews, strategies,
                   shown, executed, execFailed, calls, printed, decided>>

\* Line 67: strat.execute()? of the next strategy returns Ok.
ExecuteOk ==
    /\ pc = "execute"
    /\ Len(executed) < Len(strategies)
    /\ executed' = Append(executed, strategies[Len(executed) + 1].backend)
    /\ calls' = calls \cup {"execute"}
    /\ UNCHANGED <<todo, groupsIn, groups, pc, bi, pi, actions, reviews, strategies,
                   shown, confirms, execFailed, term, printed, decided, ev, result>>

\* Mutant: a failed execute ends the loop, after which review() returns Ok(()).
ExecuteErr_Swallowed ==
    /\ pc = "execute"
    /\ Len(executed) < Len(strategies)
    /\ execFailed' = Append(execFailed, strategies[Len(executed) + 1].backend)
    /\ calls' = calls \cup {"execute"}
    /\ Return("Ok")
    /\ UNCHANGED <<todo, groupsIn, groups, bi, pi, actions, reviews, strategies,
                   shown, confirms, executed, term, printed, decided, ev>>

\* Line 67: strat.execute()? of the next strategy returns Err, which `?` returns.
ExecuteErr ==
    /\ pc = "execute"
    /\ Len(executed) < Len(strategies)
    /\ execFailed' = Append(execFailed, strategies[Len(executed) + 1].backend)
    /\ calls' = calls \cup {"execute"}
    /\ Return("ErrExecute")
    /\ UNCHANGED <<todo, groupsIn, groups, bi, pi, actions, reviews, strategies,
                   shown, confirms, executed, term, printed, decided, ev>>

\* Line 70: every strategy was executed.
Finish ==
    /\ pc = "execute"
    /\ Len(executed) = Len(strategies)
    /\ Return("Ok")
    /\ UNCHANGED <<todo, groupsIn, groups, bi, pi, actions, reviews, strategies,
                   shown, confirms, executed, execFailed, calls, term, printed,
                   decided, ev>>

\* ------------------------------------------- get_action_for_package()
\* What every pass of the loop does before the match: the capability query of
\* line 80, print_query's flush and the single-character read.
Asked(c, intent) ==
    /\ pc = "asking"
    /\ ask_user_action_for_package(CurBackend.supports, c) = intent
    /\ ev' = KeyEvent(c, intent)
    /\ term' = term \cup {"flush", "read_char"}

\* The break of a terminal arm: back in review(), `continue` with the next package.
Break ==
    /\ pc' = "loop"
    /\ pi' = pi + 1
    /\ decided' = decided \cup {CurPackage}

\* Line 147: stdout().lock().flush()? fails in print_query.
FlushErr ==
    /\ pc = "asking"
    /\ calls' = calls \cup {"supports_as_dependency"}
    /\ term' = term \cup {"flush"}
    /\ ev' = FailEvent("flush_err")
    /\ Return("ErrIo")
    /\ UNCHANGED <<todo, groupsIn, groups, bi, pi, actions, reviews, strategies,
                   shown, confirms, executed, execFailed, printed, decided>>

\* Line 119: read_single_char_from_terminal()? fails.
ReadCharErr ==
    /\ pc = "asking"
    /\ calls' = calls \cup {"supports_as_dependency"}
    /\ term' = term \cup {"flush", "read_char"}
    /\ ev' = FailEvent("read_char_err")
    /\ Return("ErrIo")
    /\ UNCHANGED <<todo, groupsIn, groups, bi, pi, actions, reviews, strategies,
                   shown, confirms, executed, execFailed, printed, decided>>

\* Lines 81-88: ReviewIntention::AsDependency; the assertion reads the flag again.
IntentionAsDependency ==
    /\ \E c \in Keys : Asked(c, "AsDependency")
    /\ calls' = calls \cup {"supports_as_dependency"}
    /\ IF CurBackend.supports
       THEN /\ actions' = Append(actions, AsDependencyAction(CurPackage))
            /\ Break
            /\ UNCHANGED result
       ELSE /\ Return("PanicAssert")
            /\ UNCHANGED <<actions, pi, decided>>
    /\ UNCHANGED <<todo, groupsIn, groups, bi, reviews, strategies, shown,
                   confirms, executed, execFailed, printed>>

\* Lines 89-90: ReviewIntention::AssignGroup enters ask_group, which prints a
\* line for each group (line 155) and waits for a line; with a group to print,
\* the println! can panic.
IntentionAssignGroup ==
    /\ \E c \in Keys : Asked(c, "AssignGroup")
    /\ calls' = calls \cup {"supports_as_dependency"}
    /\ \/ /\ pc' = "group"
          /\ UNCHANGED result
       \/ /\ print_enumerated_groups(groups) # <<>>
          /\ Return("PanicPrint")
    /\ UNCHANGED <<todo, groupsIn, groups, bi, pi, actions, reviews, strategies,
                   shown, confirms, executed, execFailed, printed, decided>>

\* Mutant: the Delete arm without its break.
IntentionDelete_NoBreak ==
    /\ \E c \in Keys : Asked(c, "Delete")
    /\ calls' = calls \cup {"supports_as_dependency"}
    /\ actions' = Append(actions, DeleteAction(CurPackage))
    /\ UNCHANGED <<todo, groupsIn, groups, pc, bi, pi, reviews, strategies, shown,
                   confirms, executed, execFailed, printed, decided, result>>

\* Lines 95-98: ReviewIntention::Delete.
IntentionDelete ==
    /\ \E c \in Keys : Asked(c, "Delete")
    /\ calls' = calls \cup {"supports_as_dependency"}
    /\ actions' = Append(actions, DeleteAction(CurPackage))
    /\ Break
    /\ UNCHANGED <<todo, groupsIn, groups, bi, reviews, strategies, shown,
                   confirms, executed, execFailed, printed, result>>

\* Mutant: the Info arm ending in a break, as the arms around it do.
IntentionInfoOk_Break ==
    /\ \E c \in Keys : Asked(c, "Info")
    /\ calls' = calls \cup {"supports_as_dependency", "show_package_info"}
    /\ Break
    /\ UNCHANGED <<todo, groupsIn, groups, bi, actions, reviews, strategies, shown,
                   confirms, executed, execFailed, printed, result>>

\* Lines 99-101: ReviewIntention::Info, show_package_info returns Ok.
IntentionInfoOk ==
    /\ \E c \in Keys : Asked(c, "Info")
    /\ calls' = calls \cup {"supports_as_dependency", "show_package_info"}
    /\ UNCHANGED <<todo, groupsIn, groups, pc, bi, pi, actions, reviews, strategies,
                   shown, confirms, executed, execFailed, printed, decided, result>>

\* Lines 99-101: ReviewIntention::Info, show_package_info returns Err.
IntentionInfoErr ==
    /\ \E c \in Keys : Asked(c, "Info")
    /\ calls' = calls \cup {"supports_as_dependency", "show_package_info"}
    /\ Return("ErrInfo")
    /\ UNCHANGED <<todo, groupsIn, groups, bi, pi, actions, reviews, strategies,
                   shown, confirms, executed, execFailed, printed, decided>>

\* Line 102: ReviewIntention::Invalid.
IntentionInvalid ==
    /\ \E c \in Keys : Asked(c, "Invalid")
    /\ calls' = calls \cup {"supports_as_dependency"}
    /\ UNCHANGED <<todo, groupsIn, groups, pc, bi, pi, actions, reviews, strategies,
                   shown, confirms, executed, execFailed, printed, decided, result>>

\* Line 103: ReviewIntention::Skip.
IntentionSkip ==
    /\ \E c \in Keys : Asked(c, "Skip")
    /\ calls' = calls \cup {"supports_as_dependency"}
    /\ Break
    /\ UNCHANGED <<todo, groupsIn, groups, bi, actions, reviews, strategies, shown,
                   confirms, executed, execFailed, printed, result>>

\* Mutant: ContinueWithReview::No leaving only the loop over the packages.
IntentionQuit_BreakOnly ==
    /\ \E c \in Keys : Asked(c, "Quit")
    /\ calls' = calls \cup {"supports_as_dependency"}
    /\ pc' = "loop"
    /\ pi' = Len(CurBackend.pkgs) + 1
    /\ UNCHANGED <<todo, groupsIn, groups, bi, actions, reviews, strategies, shown,
                   confirms, executed, execFailed, printed, decided, result>>

\* Mutant: Quit leaving review() as an error instead of a ContinueWithReview value.
IntentionQuit_AsError ==
    /\ \E c \in Keys : Asked(c, "Quit")
    /\ calls' = calls \cup {"supports_as_dependency"}
    /\ Return("ErrIo")
    /\ UNCHANGED <<todo, groupsIn, groups, bi, pi, actions, reviews, strategies,
                   shown, confirms, executed, execFailed, printed, decided>>

\* Line 104 and line 37: ReviewIntention::Quit returns ContinueWithReview::No,
\* on which review() returns Ok(()).
IntentionQuit ==
    /\ \E c \in Keys : Asked(c, "Quit")
    /\ calls' = calls \cup {"supports_as_dependency"}
    /\ Return("Ok")
    /\ UNCHANGED <<todo, groupsIn, groups, bi, pi, actions, reviews, strategies,
                   shown, confirms, executed, execFailed, printed, decided>>

\* --------------------------------------------------------- ask_group()
\* Lines 90-93 with ask_group returning Ok(Some(group)).
GroupSelected ==
    /\ pc = "group"
    /\ \E buf \in Lines :
        /\ ask_group(groups, buf).some
        /\ ev' = LineEvent(buf, "Some")
        /\ actions' = Append(actions, AssignGroupAction(CurPackage, ask_group(groups, buf).group))
    /\ Break
    /\ UNCHANGED <<todo, groupsIn, groups, bi, reviews, strategies, shown, confirms,
                   executed, execFailed, calls, term, printed, result>>

\* Mutant: the break of line 92 placed after the `if let`, not inside it.
GroupNone_Break ==
    /\ pc = "group"
    /\ \E buf \in Lines :
        /\ ~ask_group(groups, buf).some
        /\ ev' = LineEvent(buf, "None")
    /\ Break
    /\ UNCHANGED <<todo, groupsIn, groups, bi, actions, reviews, strategies, shown,
                   confirms, executed, execFailed, calls, term, printed, result>>

\* Mutant: "no group selected" returned from review() as an error.
GroupNone_AsError ==
    /\ pc = "group"
    /\ \E buf \in Lines :
        /\ ~ask_group(groups, buf).some
        /\ ev' = LineEvent(buf, "None")
    /\ Return("ErrIo")
    /\ UNCHANGED <<todo, groupsIn, groups, bi, pi, actions, reviews, strategies,
                   shown, confirms, executed, execFailed, calls, term, printed,
                   decided>>

\* Lines 90-94 with ask_group returning Ok(None): the loop goes round.
GroupNone ==
    /\ pc = "group"
    /\ \E buf \in Lines :
        /\ ~ask_group(groups, buf).some
        /\ ev' = LineEvent(buf, "None")
    /\ pc' = "asking"
    /\ UNCHANGED <<todo, groupsIn, groups, bi, pi, actions, reviews, strategies,
                   shown, confirms, executed, execFailed, calls, term, printed,
                   decided, result>>

\* Line 167 fails: ask_group returns Err, which `if let Ok(Some(group))` of
\* line 90 does not match, so the loop goes round.
GroupReadErr ==
    /\ pc = "group"
    /\ ev' = FailEvent("read_line_err")
    /\ pc' = "asking"
    /\ UNCHANGED <<todo, groupsIn, groups, bi, pi, actions, reviews, strategies,
                   shown, confirms, executed, execFailed, calls, term, printed,
                   decided, result>>

\* ------------------------------------------------------- specification
Next ==
    \/ ReviewStart
    \/ BeginPackage
    \/ PushBackend
    \/ Aggregate
    \/ ShowStrategy
    \/ Confirm
    \/ ExecuteOk
    \/ ExecuteErr
    \/ Finish
    \/ FlushErr
    \/ ReadCharErr
    \/ IntentionAsDependency
    \/ IntentionAssignGroup
    \/ IntentionDelete
    \/ IntentionInfoOk
    \/ IntentionInfoErr
    \/ IntentionInvalid
    \/ IntentionSkip
    \/ IntentionQuit
    \/ GroupSelected
    \/ GroupNone
    \/ GroupReadErr

Spec == Init /\ [][Next]_vars

\* The user's keys that end the review of a package whatever the backend and
\* the groups: 'd', 's' and 'q'.
UserDecides == IntentionDelete \/ IntentionSkip \/ IntentionQuit

\* The steps that need no key: review()'s own and the returns of the line read,
\* of the confirmation and of execute.
Returns ==
    \/ ReviewStart \/ BeginPackage \/ PushBackend \/ Aggregate \/ ShowStrategy
    \/ Confirm \/ ExecuteOk \/ ExecuteErr \/ Finish
    \/ GroupSelected \/ GroupNone \/ GroupReadErr

\* The session with every call returning and a user who, asked again and
\* again, at some time keys 'd', 's' or 'q'.
LiveSpec == Spec /\ WF_vars(Returns) /\ SF_vars(UserDecides)

\* ------------------------------------------------------------- claims
Range(s) == {s[k] : k \in 1..Len(s)}
AllPackages == UNION {Range(todo[k].pkgs) : k \in 1..Len(todo)}
NoExecution == executed = <<>> /\ execFailed = <<>> /\ "execute" \notin calls
StrategyBackends == [k \in 1..Len(strategies) |-> strategies[k].backend]
QuitKeyed == ev.kind = "key" /\ ev.key \in {"q", "Q"}
Confirmed(answer) == ev.kind = "confirm" /\ ev.intent = answer

\* C1: once the user has sent 'q' at the prompt of a package, the session has
\* ended, no backend's strategy was executed (the backends already pushed to
\* the aggregator included), and no strategy was built, previewed or confirmed.
C1_QuitExecutesNothing ==
    QuitKeyed =>
        /\ pc = "done"
        /\ NoExecution
        /\ strategies = <<>>
        /\ shown = <<>>
        /\ confirms = 0

\* C1 witness: 'q' was sent while an earlier backend, with a decided action,
\* was already pushed to the aggregator.
C1_Witness ==
    /\ QuitKeyed
    /\ pc = "done"
    /\ \E k \in 1..Len(reviews) : reviews[k].actions # <<>>

\* C2: a declined confirmation ends the session with no execute call; an accepted
\* one, when no execute fails, ends with execute called exactly once on every
\* strategy of the pruned list, which holds the backends with a recorded action
\* and no other.
C2_ConfirmationDecides ==
    /\ Confirmed("no") => pc = "done" /\ NoExecution
    /\ (Confirmed("yes") /\ pc = "done" /\ execFailed = <<>>) =>
        /\ executed = StrategyBackends
        /\ \A i, j \in 1..Len(executed) : i # j => executed[i] # executed[j]
        /\ Range(executed) = {reviews[k].backend : k \in {n \in 1..Len(reviews) : reviews[n].actions # <<>>}}

\* C2 witness: backend 1 decided Delete, backend 2 decided Skip, the
\* confirmation was accepted and execute ran once, on backend 1.
C2_Witness ==
    /\ Confirmed("yes")
    /\ pc = "done"
    /\ Len(reviews) = 2
    /\ todo[1].pkgs # <<>>
    /\ todo[2].pkgs # <<>>
    /\ reviews[1].actions = <<DeleteAction(todo[1].pkgs[1])>>
    /\ reviews[2].actions = <<>>
    /\ executed = <<1>>

\* C3: the phases come in a fixed order: a strategy is shown only when every
\* package of every backend has its terminal decision; the confirmation is
\* requested only when every strategy was shown exactly once, and at most once;
\* execute is called only after the confirmation returned true.
C3_PhaseOrder ==
    /\ (pc \in {"preview", "execute"} \/ shown # <<>> \/ confirms > 0) => decided = AllPackages
    /\ confirms > 0 => shown = StrategyBackends
    /\ Len(shown) <= Len(strategies)
    /\ confirms <= 1
    /\ ~NoExecution => confirms = 1 /\ Confirmed("yes")

\* C3 witness: a session that went through every phase, with two strategies.
C3_Witness ==
    /\ pc = "done"
    /\ Len(shown) = 2
    /\ confirms = 1
    /\ Len(executed) = 2

\* C4: strategies are executed in the order they were built; when the execute of
\* the N-th fails, the N-1 before it stay executed, none after it is executed,
\* and review() returns the failure.
C4_ExecutionOrderAndFailure ==
    /\ Len(executed) <= Len(strategies)
    /\ executed = SubSeq(StrategyBackends, 1, Len(executed))
    /\ execFailed # <<>> =>
        /\ pc = "done"
        /\ result = "ErrExecute"
        /\ Len(execFailed) = 1
        /\ Len(executed) < Len(strategies)
        /\ execFailed[1] = strategies[Len(executed) + 1].backend
    /\ (pc = "done" /\ result = "Ok" /\ Confirmed("yes")) => executed = StrategyBackends

\* C4 witness: the second of two strategies failed after the first was executed.
C4_Witness ==
    /\ result = "ErrExecute"
    /\ Len(strategies) = 2
    /\ executed = <<strategies[1].backend>>
    /\ execFailed = <<strategies[2].backend>>

IoFailed ==
    \/ ev.kind \in {"flush_err", "read_char_err", "read_line_err"}
    \/ Confirmed("err")

\* C5: an I/O error of the terminal (the flush of the query, the read of the
\* single character, the read of the line in the group selection, the
\* confirmation prompt) is at once the result of review(), which has ended
\* with no strategy executed.
C5_IoErrorPropagates ==
    IoFailed => pc = "done" /\ result = "ErrIo" /\ NoExecution

\* C6: on 'i', a successful show_package_info leaves the loop asking for the same
\* package with the action list and the aggregator unchanged; a failed one is
\* at once the result of review(), with no strategy built or executed.
C6_InfoStaysOrAborts ==
    [][(pc = "asking" /\ ev'.kind = "key" /\ ev'.key = "i") =>
        /\ ev'.intent = "Info"
        /\ "show_package_info" \in calls'
        /\ \/ /\ pc' = "asking"
              /\ result' = "running"
              /\ UNCHANGED <<bi, pi, actions, reviews, decided, strategies>>
           \/ /\ pc' = "done"
              /\ result' = "ErrInfo"
              /\ NoExecution'
              /\ strategies' = <<>> /\ shown' = <<>> /\ confirms' = 0]_vars

\* C6 witness: show_package_info failed for a package of the second backend
\* after the first backend had a decided action pushed.
C6_Witness ==
    /\ ev.kind = "key" /\ ev.key = "i"
    /\ result = "ErrInfo"
    /\ \E k \in 1..Len(reviews) : reviews[k].actions # <<>>

\* C6 second witness state, the success: asking again after 'i', an action of
\* an earlier package of the backend still recorded.
C6_WitnessStay ==
    /\ ev.kind = "key" /\ ev.key = "i"
    /\ pc = "asking"
    /\ actions # <<>>

AllEmpty == \A k \in 1..Len(todo) : todo[k].pkgs = <<>>

\* C7: when every backend's package list is empty (no backend at all included),
\* review() makes no backend call, requests no keystroke and no confirmation,
\* and ends having reported "nothing to do" once.
C7_EmptyInputNoCalls ==
    AllEmpty =>
        /\ calls = {}
        /\ term = {}
        /\ confirms = 0
        /\ shown = <<>>
        /\ NoExecution
        /\ ev = NoEvent
        /\ pc = "done" => printed = 1
        /\ pc # "done" => printed = 0

\* What of C7 the code keeps whether or not stdout can be written: no backend
\* call, no keystroke, no confirmation, no execution; and a session that
\* returned has reported "nothing to do" once and returned success.
C7_EmptyInputNoCallsReturned ==
    AllEmpty =>
        /\ calls = {}
        /\ term = {}
        /\ confirms = 0
        /\ shown = <<>>
        /\ NoExecution
        /\ result \in {"running", "Ok", "PanicPrint"}
        /\ result = "Ok" <=> printed = 1
        /\ result = "PanicPrint" => pc = "done" /\ printed = 0

\* A session over two backends without packages has ended by its report.
C7_Witness ==
    /\ AllEmpty
    /\ Len(todo) = 2
    /\ pc = "done"
    /\ printed = 1

\* A session over backends without packages has ended by the panic of line 27.
C7_WitnessPanic ==
    /\ AllEmpty
    /\ pc = "done"
    /\ result = "PanicPrint"

AllSkipped ==
    /\ AllPackages # {}
    /\ decided = AllPackages
    /\ Len(reviews) = Len(todo)
    /\ \A k \in 1..Len(reviews) : reviews[k].actions = <<>>

\* C8: when every package was decided Skip, whatever else was keyed in between,
\* the session shows no preview, requests no confirmation, executes nothing and
\* ends having reported "nothing to do" once.
C8_AllSkippedNothingToDo ==
    AllSkipped =>
        /\ strategies = <<>>
        /\ shown = <<>>
        /\ confirms = 0
        /\ NoExecution
        /\ pc \in {"loop", "done"}
        /\ pc = "done" => printed = 1

\* What of C8 the code keeps whether or not stdout can be written: no preview,
\* no confirmation, no execution; and a session that returned has reported
\* "nothing to do" once and returned success.
C8_AllSkippedNothingToDoReturned ==
    AllSkipped =>
        /\ strategies = <<>>
        /\ shown = <<>>
        /\ confirms = 0
        /\ NoExecution
        /\ pc \in {"loop", "done"}
        /\ pc = "done" =>
            \/ printed = 1 /\ result = "Ok"
            \/ printed = 0 /\ result = "PanicPrint"

\* Two packages of two backends were skipped, with an info query in between,
\* and the session has ended by its report.
C8_Witness ==
    /\ AllSkipped
    /\ pc = "done"
    /\ printed = 1
    /\ Len(todo) = 2
    /\ Cardinality(decided) = 2
    /\ "show_package_info" \in calls

\* Every package was skipped and the session has ended by the panic of line 44.
C8_WitnessPanic ==
    /\ AllSkipped
    /\ pc = "done"
    /\ result = "PanicPrint"

\* C9: 'a' at the prompt of a backend without the as-dependency capability is an
\* Invalid intention: the same package is asked again and nothing is recorded;
\* with the capability it records AsDependency(package) and ends the review of
\* the package.
C9_AsDependencyNeedsCapability ==
    [][(pc = "asking" /\ ev'.kind = "key" /\ ev'.key = "a") =>
        IF todo[bi].supports
        THEN /\ ev'.intent = "AsDependency"
             /\ actions' = Append(actions, AsDependencyAction(todo[bi].pkgs[pi]))
             /\ decided' = decided \cup {todo[bi].pkgs[pi]}
             /\ pc' = "loop" /\ pi' = pi + 1 /\ bi' = bi
             /\ UNCHANGED <<reviews, result>>
        ELSE /\ ev'.intent = "Invalid"
             /\ pc' = "asking"
             /\ UNCHANGED <<bi, pi, actions, reviews, decided, result>>]_vars

\* C9 witness: 'a' was keyed for a backend without the capability and the same
\* package is asked again.
C9_Witness ==
    /\ ev.kind = "key" /\ ev.key = "a" /\ ev.intent = "Invalid"
    /\ pc = "asking"
    /\ ~todo[bi].supports

\* C9 second witness state: 'a' recorded AsDependency for a capable backend.
C9_WitnessRecorded ==
    /\ ev.kind = "key" /\ ev.key = "a" /\ ev.intent = "AsDependency"
    /\ pc = "loop"
    /\ actions # <<>>
    /\ actions[Len(actions)].tag = "AsDependency"

\* The number a line of Lines denotes, -1 when it denotes none.
Denotes(l) ==
    IF Len(l) = 2 /\ l[1] \in DOMAIN Digit /\ l[2] = "\n" THEN Digit[l[1]]
    ELSE IF l \in {<<" ", "+", "0", "1", " ", "\n">>, <<"\f", "1", "\n">>} THEN 1
    ELSE -1

\* C10: in the group selection with N groups, a line that is no non-negative
\* integer, or is one >= N, records nothing and asks the same package again; a
\* line that is an integer i < N records AssignGroup(package, g) for the group g
\* that has exactly i groups of smaller name, and ends the review of the package.
C10_GroupSelection ==
    [][(pc = "group" /\ ev'.kind = "line") =>
        LET i == Denotes(ev'.line)
            p == todo[bi].pkgs[pi] IN
        IF i < 0 \/ i >= Len(groups)
        THEN /\ pc' = "asking"
             /\ UNCHANGED <<bi, pi, actions, reviews, decided, result>>
        ELSE /\ \E g \in Range(groups) :
                    /\ Cardinality({h \in Range(groups) : h < g}) = i
                    /\ actions' = Append(actions, AssignGroupAction(p, g))
             /\ decided' = decided \cup {p}
             /\ pc' = "loop" /\ pi' = pi + 1 /\ bi' = bi
             /\ UNCHANGED <<reviews, result>>]_vars

\* C10 witness: with two groups, the line "1" recorded the group of greater name.
C10_Witness ==
    /\ ev.kind = "line" /\ ev.line = <<"1", "\n">>
    /\ Len(groups) = 2
    /\ pc = "loop"
    /\ actions # <<>>
    /\ actions[Len(actions)] = AssignGroupAction(todo[bi].pkgs[pi - 1], 2)

\* C10 second witness state: an index equal to the group count selected nothing.
C10_WitnessNone ==
    /\ ev.kind = "line" /\ ev.line = <<"2", "\n">>
    /\ Len(groups) = 2
    /\ pc = "asking"

\* The indices of the actions of a list that carry a tag, and the rank of one.
Tagged(acts, tag) == {k \in 1..Len(acts) : acts[k].tag = tag}
RankIn(I, k) == 1 + Cardinality({j \in I : j < k})

\* The list is, in order, the payloads of the actions of acts with the tag.
IsProjection(list, acts, tag) ==
    /\ Len(list) = Cardinality(Tagged(acts, tag))
    /\ \A k \in Tagged(acts, tag) :
        list[RankIn(Tagged(acts, tag), k)] =
            IF tag = "AssignGroup" THEN <<acts[k].package, acts[k].group>> ELSE acts[k].package

NonEmptyEntries == {n \in 1..Len(reviews) : reviews[n].actions # <<>>}

\* C11: the strategies built from the aggregator are, in the order of the
\* entries, one per entry with a non-empty action list; the to-delete,
\* as-dependency and assign-group lists of each are, in the order of the entry's
\* actions, the packages of its Delete actions, of its AsDependency actions and
\* the (package, group) pairs of its AssignGroup actions, so that every action
\* is in exactly one list; no strategy has three empty lists.
C11_IntoStrategiesPartitions ==
    (pc \in {"preview", "execute"} \/ strategies # <<>>) =>
        /\ Len(strategies) = Cardinality(NonEmptyEntries)
        /\ \A n \in NonEmptyEntries :
            LET st == strategies[RankIn(NonEmptyEntries, n)]
                acts == reviews[n].actions IN
            /\ st.backend = reviews[n].backend
            /\ IsProjection(st.to_delete, acts, "Delete")
            /\ IsProjection(st.as_dependency, acts, "AsDependency")
            /\ IsProjection(st.assign_group, acts, "AssignGroup")
            /\ Len(st.to_delete) + Len(st.as_dependency) + Len(st.assign_group) = Len(acts)
        /\ \A k \in 1..Len(strategies) :
            ~(strategies[k].to_delete = <<>> /\ strategies[k].as_dependency = <<>>
                /\ strategies[k].assign_group = <<>>)

\* C11 witness: the first backend's packages were all skipped, the second has
\* an action; one strategy was built, for the second.
C11_Witness ==
    /\ Len(reviews) = 2
    /\ todo[1].pkgs # <<>>
    /\ reviews[1].actions = <<>>
    /\ Len(strategies) = 1
    /\ strategies[1].backend = 2

\* C11 second witness state: one backend, two Delete actions kept in order.
C11_WitnessOrder ==
    /\ Len(strategies) = 1
    /\ Len(strategies[1].to_delete) = 2
    /\ strategies[1].to_delete[1] < strategies[1].to_delete[2]

\* The number of recorded actions that name a package.
ActionsNaming(p) ==
    Cardinality({j \in 1..Len(actions) : actions[j].package = p})
        + Cardinality({kj \in UNION {{<<k, j>> : j \in 1..Len(reviews[k].actions)} : k \in 1..Len(reviews)} :
                        reviews[kj[1]].actions[kj[2]].package = p})

JustDecided == pc = "loop" /\ pi > 1 /\ ev.kind \in {"key", "line"}

\* C12: at every moment of a session each package of the input is named by at
\* most one recorded action: by none until its review has ended, by exactly one
\* when it ended in AsDependency, Delete or AssignGroup, by none when skipped.
C12_OneActionPerPackage ==
    /\ \A p \in AllPackages :
        /\ ActionsNaming(p) <= 1
        /\ p \notin decided => ActionsNaming(p) = 0
    /\ JustDecided =>
        ActionsNaming(todo[bi].pkgs[pi - 1]) = IF ev.intent = "Skip" THEN 0 ELSE 1
    /\ \A j \in 1..Len(actions) : actions[j].package \in AllPackages
    /\ \A k \in 1..Len(reviews) : \A j \in 1..Len(reviews[k].actions) :
        reviews[k].actions[j].package \in Range(todo[reviews[k].backend].pkgs)

\* C12 witness: after invalid keys and an info query, two packages each have
\* their one action and the session has ended.
C12_Witness ==
    /\ pc = "done"
    /\ Cardinality(AllPackages) = 2
    /\ \A p \in AllPackages : ActionsNaming(p) = 1
    /\ "show_package_info" \in calls

\* The groups of the caller, whether still in its iterator or collected.
SuppliedGroups == Range(groupsIn) \cup Range(groups)

RecordedActions ==
    Range(actions) \cup UNION {Range(reviews[k].actions) : k \in 1..Len(reviews)}

\* C13: every AssignGroup action of an action list, and every pair of a
\* strategy's assign-group list, names a group of the caller's group set; with
\* an empty group set there is none.
C13_AssignGroupOfSuppliedGroups ==
    /\ \A a \in RecordedActions : a.tag = "AssignGroup" => a.group \in SuppliedGroups
    /\ \A k \in 1..Len(strategies) : \A j \in 1..Len(strategies[k].assign_group) :
        strategies[k].assign_group[j][2] \in SuppliedGroups
    /\ SuppliedGroups = {} => \A a \in RecordedActions : a.tag # "AssignGroup"

\* C13 witness: with two groups, a group was assigned and reached a strategy.
C13_Witness ==
    /\ Len(groups) = 2
    /\ \E k \in 1..Len(strategies) : strategies[k].assign_group # <<>>

\* C13 second witness state: 'g' and a line "0" with an empty group set.
C13_WitnessEmpty ==
    /\ groups = <<>> /\ pc = "asking"
    /\ ev.kind = "line" /\ ev.line = <<"0", "\n">>

\* C14: an AsDependency action is recorded only for a backend whose
\* supports_as_dependency() is true, and the assertion of get_action_for_package
\* never fails.
C14_AsDependencyOnlyWithCapability ==
    /\ result # "PanicAssert"
    /\ \A j \in 1..Len(actions) : actions[j].tag = "AsDependency" => todo[bi].supports
    /\ \A k \in 1..Len(reviews) : \A j \in 1..Len(reviews[k].actions) :
        reviews[k].actions[j].tag = "AsDependency" => todo[reviews[k].backend].supports
    /\ \A k \in 1..Len(strategies) :
        strategies[k].as_dependency # <<>> => todo[strategies[k].backend].supports

\* C14 witness: 'a' was keyed for both backends; the one with the capability
\* has the AsDependency action, the one without has none.
C14_Witness ==
    /\ Len(todo) = 2
    /\ todo[1].supports /\ ~todo[2].supports
    /\ Len(reviews) >= 1
    /\ reviews[1].actions # <<>>
    /\ reviews[1].actions[1].tag = "AsDependency"
    /\ bi = 2 /\ pc = "asking"
    /\ ev.kind = "key" /\ ev.key = "a"

\* C15: a session that ended by a "nothing to do" report, by the user's quit or
\* by a declined confirmation returned success; one that returned an error ended
\* on a failed terminal call, a failed info query or a failed execute. (A
\* session that ended in the panic of a println! returned nothing.)
C15_ResultOfReview ==
    pc = "done" =>
        /\ (printed > 0 \/ QuitKeyed \/ Confirmed("no")) => result = "Ok"
        /\ result \in {"Ok", "ErrIo", "ErrInfo", "ErrExecute", "PanicPrint"}
        /\ result = "PanicPrint" => printed = 0 /\ ~QuitKeyed /\ ~Confirmed("no")
        /\ result = "ErrIo" => ev.kind \in {"flush_err", "read_char_err"} \/ Confirmed("err")
        /\ result = "ErrInfo" => ev.kind = "key" /\ ev.intent = "Info"
        /\ result = "ErrExecute" => execFailed # <<>>

\* C15 witness: a session with a recorded action ended by the user's quit,
\* with success.
C15_Witness ==
    /\ pc = "done"
    /\ QuitKeyed
    /\ result = "Ok"
    /\ actions # <<>>

\* C15 second witness state: ended by a declined confirmation, with success.
C15_WitnessDeclined == pc = "done" /\ Confirmed("no") /\ result = "Ok"

\* C15 third witness state: ended by the report after aggregation, with success.
C15_WitnessNothing == pc = "done" /\ printed = 1 /\ decided # {} /\ result = "Ok"

Stays == pc' = "asking" /\ UNCHANGED <<bi, pi, actions, reviews, decided, strategies, result>>

\* C16: an Invalid key, a successful info query and a group selection that
\* yields no group each lead back to asking for the same package, with the
\* action list, the aggregator and the result unchanged; Skip ends the review of
\* the package with the action list unchanged and goes on to the next package.
C16_LoopFrame ==
    [][/\ (pc = "asking" /\ ev'.kind = "key" /\ ev'.intent = "Invalid") => Stays
       /\ (pc = "asking" /\ ev'.kind = "key" /\ ev'.intent = "Info" /\ result' = "running") => Stays
       /\ (pc = "group" /\ ev'.kind = "line" /\ ev'.intent = "None") => Stays
       /\ (pc = "asking" /\ ev'.kind = "key" /\ ev'.intent = "Skip") =>
            /\ pc' = "loop" /\ bi' = bi /\ pi' = pi + 1
            /\ decided' = decided \cup {todo[bi].pkgs[pi]}
            /\ UNCHANGED <<actions, reviews, strategies, result>>]_vars

\* C16 witness: the second package of a backend was skipped; the action of the
\* first is still the action list.
C16_Witness ==
    /\ ev.kind = "key" /\ ev.intent = "Skip"
    /\ pc = "loop" /\ pi = 3
    /\ Len(actions) = 1

\* C16 second witness state: no group was selected for the second package.
C16_WitnessNoGroup ==
    /\ ev.kind = "line" /\ ev.intent = "None"
    /\ pc = "asking" /\ pi = 2
    /\ Len(actions) = 1

\* C17: with no known group, the group selection entered by 'g' displays no
\* group line (so that no println! of one can panic), selects no group whatever
\* the line read, does not fail, records nothing and leads back to asking for
\* the same package.
C17_NoGroups ==
    /\ []((pc = "group" /\ groups = <<>>) =>
            /\ print_enumerated_groups(groups) = <<>>
            /\ get_amount_of_digits_for_number(Len(groups)) = 1
            /\ \A buf \in Lines : ~ask_group(groups, buf).some)
    /\ [][(pc = "asking" /\ groups = <<>> /\ ev'.kind = "key" /\ ev'.intent = "AssignGroup") =>
            /\ pc' = "group"
            /\ UNCHANGED <<bi, pi, actions, reviews, decided, result>>]_vars
    /\ [][(pc = "group" /\ groups = <<>> /\ ev'.kind = "line") =>
            /\ ev'.intent = "None"
            /\ Stays]_vars

\* C17 witness: with no group, the line "0" selected nothing and the package
\* is asked again.
C17_Witness ==
    /\ groups = <<>> /\ groupsIn = <<>>
    /\ ev.kind = "line" /\ ev.line = <<"0", "\n">> /\ ev.intent = "None"
    /\ pc = "asking"
    /\ result = "running"

\* The position of a package in its backend's list, and a list of packages
\* (or of pairs headed by a package) being in the order of that list.
PosOf(b, p) == CHOOSE i \in 1..Len(todo[b].pkgs) : todo[b].pkgs[i] = p
InInputOrder(b, ps) ==
    /\ \A j \in 1..Len(ps) : ps[j] \in Range(todo[b].pkgs)
    /\ \A i, j \in 1..Len(ps) : i < j => PosOf(b, ps[i]) < PosOf(b, ps[j])
PackagesOf(acts) == [j \in 1..Len(acts) |-> acts[j].package]
Firsts(pairs) == [j \in 1..Len(pairs) |-> pairs[j][1]]
Increasing(q) == \A i, j \in 1..Len(q) : i < j => q[i] < q[j]

\* C18: the packages decided so far are the packages of the backends before the
\* current one and the packages before the current one of the current backend;
\* every action list names packages of its backend in their input order; the
\* aggregator's k-th entry is that of the k-th backend; the lists of a strategy
\* are in package input order, and the strategies, the previews and the
\* executions are in backend order.
C18_OrderPreserved ==
    /\ pc \in {"loop", "asking", "group"} =>
        /\ decided = UNION {Range(todo[b].pkgs) : b \in 1..(bi - 1)}
                        \cup {todo[bi].pkgs[i] : i \in 1..(pi - 1)}
        /\ Len(reviews) = bi - 1
        /\ bi <= Len(todo) => InInputOrder(bi, PackagesOf(actions))
    /\ \A k \in 1..Len(reviews) :
        /\ reviews[k].backend = k
        /\ InInputOrder(k, PackagesOf(reviews[k].actions))
    /\ \A k \in 1..Len(strategies) :
        /\ InInputOrder(strategies[k].backend, strategies[k].to_delete)
        /\ InInputOrder(strategies[k].backend, strategies[k].as_dependency)
        /\ InInputOrder(strategies[k].backend, Firsts(strategies[k].assign_group))
    /\ Increasing(StrategyBackends)
    /\ Increasing(shown)
    /\ Increasing(executed \o execFailed)

\* C18 witness: two backends with an action each were reviewed, shown and
\* executed in the order supplied.
C18_Witness ==
    /\ pc = "done"
    /\ Len(reviews) = 2
    /\ shown = <<1, 2>>
    /\ executed = <<1, 2>>

\* C18 second witness state: two packages of a backend, kept in order in a list
\* of its strategy.
C18_WitnessList ==
    /\ Len(strategies) = 1
    /\ Len(strategies[1].to_delete) = 2

\* C19: the aggregator has nothing to do exactly when its strategies are the
\* empty list; so when strategies are shown or a confirmation is requested,
\* there is a strategy, and each strategy has a non-empty list.
C19_NothingToDoIffNoStrategy ==
    /\ nothing_to_do(reviews) <=> (into_strategies(reviews) = <<>>)
    /\ (pc \in {"preview", "execute"} \/ shown # <<>> \/ confirms > 0) =>
        /\ strategies # <<>>
        /\ \A k \in 1..Len(strategies) :
            \/ strategies[k].to_delete # <<>>
            \/ strategies[k].as_dependency # <<>>
            \/ strategies[k].assign_group # <<>>

\* C19 witness: the confirmation was requested with one backend skipped
\* throughout and one strategy for the other.
C19_Witness ==
    /\ confirms = 1
    /\ Len(reviews) = 2
    /\ \E k \in 1..2 : reviews[k].actions = <<>> /\ todo[k].pkgs # <<>>
    /\ Len(strategies) = 1

InPackageLoop(p) == p \in {"asking", "group"}

\* C20: the per-package loop is left only by a terminal decision (AsDependency,
\* Delete, Skip, or AssignGroup with a selected group), by Quit or by a returned
\* error; invalid input is always possible while asking; and when every call
\* returns and the user in the end keys 'd', 's' or 'q' for each package, the
\* session terminates.
C20_LoopExitsAndTermination ==
    /\ [][(InPackageLoop(pc) /\ ~InPackageLoop(pc')) =>
            \/ /\ pc' = "loop" /\ pi' = pi + 1 /\ bi' = bi
               /\ \/ ev'.kind = "key" /\ ev'.intent \in {"AsDependency", "Delete", "Skip"}
                  \/ ev'.kind = "line" /\ ev'.intent = "Some"
            \/ /\ pc' = "done" /\ result' = "Ok"
               /\ ev'.kind = "key" /\ ev'.intent = "Quit"
            \/ /\ pc' = "done" /\ result' \in {"ErrIo", "ErrInfo"}]_vars
    /\ [](pc = "asking" => ENABLED IntentionInvalid)
    /\ <>(pc = "done")

\* The exit of the per-package loop that C20 does not list: 'g' was keyed with
\* a group to display and the println! of line 155 panicked.
C20_WitnessPanic ==
    /\ pc = "done"
    /\ result = "PanicPrint"
    /\ ev.kind = "key" /\ ev.intent = "AssignGroup"

\* C20 with that exit added to its list holds of the code.
C20_LoopExitsOrPanics ==
    /\ [][(InPackageLoop(pc) /\ ~InPackageLoop(pc')) =>
            \/ /\ pc' = "loop" /\ pi' = pi + 1 /\ bi' = bi
               /\ \/ ev'.kind = "key" /\ ev'.intent \in {"AsDependency", "Delete", "Skip"}
                  \/ ev'.kind = "line" /\ ev'.intent = "Some"
            \/ /\ pc' = "done" /\ result' = "Ok"
               /\ ev'.kind = "key" /\ ev'.intent = "Quit"
            \/ /\ pc' = "done" /\ result' \in {"ErrIo", "ErrInfo"}
            \/ /\ pc' = "done" /\ result' = "PanicPrint"
               /\ pc = "asking" /\ groups # <<>>
               /\ ev'.kind = "key" /\ ev'.intent = "AssignGroup"]_vars
    /\ [](pc = "asking" => ENABLED IntentionInvalid)
    /\ <>(pc = "done")

====
